---- MODULE Spec2Model ----
(***************************************************************************)
(* A model of draw-dna-matches.py: the ancestor resolver (find_ancestors), *)
(* the common-ancestor and relationship engine (find_common_ancestor,      *)
(* compute_relation, find_relation_label) and the module-level script that *)
(* selects the families and people to display.                             *)
(*                                                                         *)
(* The genealogy store is the value of `data` (read by readgedcom in the   *)
(* program); the script is a straight-line batch run, modelled as one      *)
(* action per module-level loop, with `pc` naming the next loop to run.    *)
(***************************************************************************)
EXTENDS Integers, Sequences, FiniteSets, TLC

(* ------------------------------ bounds -------------------------------- *)

\* number of individuals in the store
NumIndi == 5

\* largest number of DNA matches (besides the base person) in the store
MaxMatches == 2

\* depth of the interpreter's call stack at which a recursive call raises
\* RecursionError (1000 in CPython; any acyclic store of NumIndi people
\* needs fewer than NumIndi + 1 nested calls)
RecursionLimit == 7

\* largest generation distance given to find_relation_label on its own
MaxGen == 8

(* ------------------------- program constants -------------------------- *)

\* options['min'] and options['max'], the defaults
OptMin == 0
OptMax == 5000

\* partner_types = [ 'wife', 'husb' ]
partner_types == <<"wife", "husb">>

(* ------------------------------ the store ----------------------------- *)

Indi == 1..NumIndi

\* the value standing for "this key is absent" (no famc, no wife, no husb)
NoFam == 0
NoIndi == 0

\* Family identifiers.  The stores that Init enumerates give the family of
\* the couple (w, h) the identifier FamId(w, h); h = 0 is a family with
\* only one partner.
FamId(w, h) == w * (NumIndi + 1) + h

VARIABLES
    data,                 \* data[i_key] as data.indi, data[f_key] as data.fam
    pc,                   \* the module-level statement to run next
    me,                   \* the id of the base dna match person, 0 for None
    matched,              \* keys of the dict `matched`, in insertion order
    diagnostics,          \* individuals named in an "Ignoring ..." message
    my_ancestors,         \* the dict filled by find_ancestors( me, [], ... )
    common,               \* matched[indi]['common']
    relation,             \* matched[indi]['relation'], "" when the key is absent
    families_to_display,  \* the dict families_to_display: family -> flag
    common_fams,          \* the dict common_fams: family -> label, "" for None
    people_to_display,    \* the set people_to_display
    multiple_marriages,   \* the dict multiple_marriages: individual -> families
    dot,                  \* what dot_labels and dot_connect wrote to stdout
    exit_message,         \* the message printed before sys.exit(1), "" if none
    not_displayed,        \* the list not_displayed
    reported,             \* individuals named in the "not displayed" message
    first_run,            \* results of the run with the partners in source order
    arg_me, arg_them,     \* arguments of a lone find_relation_label call
    label                 \* its result

vars == << data, pc, me, matched, diagnostics, my_ancestors, common, relation,
           families_to_display, common_fams, people_to_display,
           multiple_marriages, dot, exit_message, not_displayed, reported,
           first_run, arg_me, arg_them, label >>

\* data[i_key][indi]['famc'][0], or NoFam when the key is absent or empty
famc_of(indi) == data.indi[indi].famc

\* data[f_key][fam][partner][0], or NoIndi when the family has no such key
partner_of(fam, partner) == data.fam[fam][partner]

(* --------------------------- find_ancestors --------------------------- *)

\* A dict of ancestors is the sequence of its items in insertion order
\* (Python dicts keep that order, and the collateral loop of
\* find_common_ancestor walks it); err is set once a call raised
\* RecursionError.
EmptyDict == [err |-> FALSE, items |-> <<>>]

\* position of the key `a` in the dict, 0 when it is absent
IndexOf(items, a) ==
    IF \E k \in 1..Len(items) : items[k].indi = a
    THEN CHOOSE k \in 1..Len(items) : items[k].indi = a
    ELSE 0

HasKey(items, a) == IndexOf(items, a) # 0

\* ancestors[a]
Item(items, a) == items[IndexOf(items, a)]

\* a plausible slip: an entry that is there already gets the new path but
\* keeps the family it had
SetItem_keeps_fam(items, ancestor, fam, new_path) ==
    LET entry == [indi |-> ancestor, fam |-> fam, path |-> new_path]
        k == IndexOf(items, ancestor)
    IN  IF k = 0 THEN Append(items, entry)
        ELSE [items EXCEPT ![k].path = new_path]

\* ancestors[ancestor] = { 'fam': fam, 'path': new_path }
SetItem(items, ancestor, fam, new_path) ==
    LET entry == [indi |-> ancestor, fam |-> fam, path |-> new_path]
        k == IndexOf(items, ancestor)
    IN  IF k = 0 THEN Append(items, entry) ELSE [items EXCEPT ![k] = entry]

\* a plausible slip: the test for the shortest path is dropped, the last
\* chain visited always wins
do_update_always(items, ancestor, new_path) == TRUE

\* a plausible slip: the test reads `<=`, an entry is also kept against a
\* path of the same length
do_update_keeps_first(items, ancestor, new_path) ==
    IF HasKey(items, ancestor)
    THEN ~(Len(Item(items, ancestor).path) <= Len(new_path))
    ELSE TRUE

\* do_update: keep the recorded entry only if its path is strictly shorter
do_update(items, ancestor, new_path) ==
    IF HasKey(items, ancestor)
    THEN ~(Len(Item(items, ancestor).path) < Len(new_path))
    ELSE TRUE

RECURSIVE find_ancestors(_, _, _)
RECURSIVE visit_partners(_, _, _, _)

\* the loop `for partner in partner_types` of find_ancestors, from the k-th
\* partner type on; acc is the dict so far
visit_partners(fam, new_path, k, acc) ==
    IF acc.err \/ k > Len(partner_types) THEN acc
    ELSE LET ancestor == partner_of(fam, partner_types[k])
         IN  IF ancestor = NoIndi
             THEN visit_partners(fam, new_path, k + 1, acc)
             ELSE LET updated ==
                        IF do_update(acc.items, ancestor, new_path)
                        THEN [acc EXCEPT !.items =
                                  SetItem(acc.items, ancestor, fam, new_path)]
                        ELSE acc
                  IN  visit_partners(fam, new_path, k + 1,
                          find_ancestors(ancestor, new_path, updated))

\* find_ancestors( indi, path, ancestors ): the dict after the call.  The
\* nesting depth of the call is Len(path) + 1.
find_ancestors(indi, path, ancestors) ==
    IF ancestors.err THEN ancestors
    ELSE IF Len(path) >= RecursionLimit THEN [ancestors EXCEPT !.err = TRUE]
    ELSE IF famc_of(indi) = NoFam THEN ancestors
    ELSE visit_partners(famc_of(indi), Append(path, famc_of(indi)), 1, ancestors)

(* ------------------------ find_common_ancestor ------------------------ *)

\* matched[indi]['common'] is None (the base person), the empty dict
\* (indi = NoIndi: no key is set) or a dict with the five keys; the keys
\* 'match-fam' and 'match-path' are the fields match_fam and match_path.
NoneCommon ==
    [none |-> TRUE, indi |-> NoIndi, fam |-> NoFam, path |-> <<>>,
     match_fam |-> NoFam, match_path |-> <<>>]

EmptyCommon == [NoneCommon EXCEPT !.none = FALSE]

\* the truth value of matched[indi]['common']
Truthy(c) == ~c.none /\ c.indi # NoIndi

\* found_len = 1000000, "pick a big number"
BigNumber == 1000000

\* on a tie, prefer same family over "half" relations
tie_replaces(them_fam, base_fam) == them_fam = base_fam

\* the five assignments of the collateral branch: them is
\* ancestors[ancestor], base is base_ancestors[ancestor]
collateral_record(ancestor, them, base) ==
    [none |-> FALSE, indi |-> ancestor, fam |-> them.fam, path |-> them.path,
     match_fam |-> base.fam, match_path |-> base.path]

\* the loop `for ancestor in ancestors` of the collateral branch, from the
\* k-th key on; st is [found_len, result]
RECURSIVE closest_loop(_, _, _, _)
closest_loop(ancestors, base_ancestors, k, st) ==
    IF k > Len(ancestors) THEN st.result
    ELSE LET ancestor == ancestors[k].indi
             them == ancestors[k]
         IN  IF ~HasKey(base_ancestors, ancestor)
             THEN closest_loop(ancestors, base_ancestors, k + 1, st)
             ELSE LET base == Item(base_ancestors, ancestor)
                      path_len == Len(them.path)
                      next ==
                        IF path_len = st.found_len
                        THEN IF tie_replaces(them.fam, base.fam)
                             THEN [st EXCEPT !.result =
                                       collateral_record(ancestor, them, base)]
                             ELSE st
                        ELSE IF path_len < st.found_len
                        THEN [found_len |-> path_len,
                              result |-> collateral_record(ancestor, them, base)]
                        ELSE st
                  IN  closest_loop(ancestors, base_ancestors, k + 1, next)

\* a plausible slip: the two direct-line tests are skipped, every match is
\* treated as a collateral relation
direct_or_collateral_never_direct(indi, base_person, ancestors, base_ancestors) ==
    closest_loop(ancestors, base_ancestors, 1,
                 [found_len |-> BigNumber, result |-> EmptyCommon])

\* the body of find_common_ancestor once the ancestors of indi are known
direct_or_collateral(indi, base_person, ancestors, base_ancestors) ==
    IF HasKey(ancestors, base_person)
    THEN \* person is a direct descendant
         LET a == Item(ancestors, base_person)
         IN  [none |-> FALSE, indi |-> base_person, fam |-> a.fam,
              path |-> a.path, match_fam |-> a.fam, match_path |-> <<>>]
    ELSE IF HasKey(base_ancestors, indi)
    THEN \* person is a direct ancestor
         LET b == Item(base_ancestors, indi)
         IN  [none |-> FALSE, indi |-> indi, fam |-> b.fam, path |-> <<>>,
              match_fam |-> b.fam, match_path |-> b.path]
    ELSE closest_loop(ancestors, base_ancestors, 1,
                      [found_len |-> BigNumber, result |-> EmptyCommon])

\* find_common_ancestor( indi, base_person, base_ancestors ): err when the
\* nested find_ancestors raised RecursionError, else the dict returned
find_common_ancestor(indi, base_person, base_ancestors) ==
    LET ancestors == find_ancestors(indi, <<>>, EmptyDict)
    IN  IF ancestors.err
        THEN [err |-> TRUE, result |-> EmptyCommon]
        ELSE [err |-> FALSE,
              result |-> direct_or_collateral(indi, base_person,
                                              ancestors.items, base_ancestors)]

(* ------------------ find_relation_label, compute_relation ------------- *)

\* 'g' * n
RECURSIVE Repeat(_, _)
Repeat(s, n) == IF n <= 0 THEN "" ELSE s \o Repeat(s, n - 1)

\* str( n ) for the integers n >= 0 that occur
str(n) == ToString(n)

\* a plausible slip: the last test reads `me > 3`, which leaves me = 3 with
\* them > 3 without a label
cousin_removed_gap(gen_me, gen_them) ==
    IF gen_me = 2 THEN "1C" \o str(gen_them - 2) \o "R"
    ELSE IF gen_me > 3
    THEN IF gen_them < gen_me
         THEN str(gen_them - 1) \o "C" \o str(gen_me - gen_them) \o "R"
         ELSE str(gen_me - 1) \o "C" \o str(gen_them - gen_me) \o "R"
    ELSE "N/A"

\* a plausible slip: the degree is always taken from the base person's side
cousin_removed_me_side(gen_me, gen_them) ==
    IF gen_me = 2 THEN "1C" \o str(gen_them - 2) \o "R"
    ELSE IF gen_me > 2
    THEN LET y == IF gen_them >= gen_me THEN gen_them - gen_me
                  ELSE gen_me - gen_them
         IN  str(gen_me - 1) \o "C" \o str(y) \o "R"
    ELSE "N/A"

\* the last two branches of find_relation_label (`elif me == 2`, `elif me > 2`)
cousin_removed(gen_me, gen_them) ==
    IF gen_me = 2 THEN "1C" \o str(gen_them - 2) \o "R"
    ELSE IF gen_me > 2
    THEN LET y == IF gen_them >= gen_me THEN gen_them - gen_me
                  ELSE gen_me - gen_them
         IN  IF gen_them < gen_me
             THEN str(gen_them - 1) \o "C" \o str(y) \o "R"
             ELSE str(gen_me - 1) \o "C" \o str(y) \o "R"
    ELSE "N/A"

\* a plausible slip: the `elif me == 1` and `elif them == 1` branches are
\* tested after the cousin branches
near_line_as_cousin(gen_me, gen_them) ==
    IF gen_me = gen_them THEN str(gen_me - 1) \o "C"
    ELSE IF gen_me < gen_them
    THEN str(gen_me - 1) \o "C" \o str(gen_them - gen_me) \o "R"
    ELSE str(gen_them - 1) \o "C" \o str(gen_me - gen_them) \o "R"

\* the branches `elif me == 1`, `elif me == them`, `elif them == 1` and the
\* cousin branches, for me > 0 and them > 0
near_line(gen_me, gen_them) ==
    IF gen_me = 1
    THEN IF gen_them = 1 THEN "sibling"
         ELSE IF gen_them = 2 THEN "nibling"
         ELSE IF gen_them = 3 THEN "grandnibling"
         ELSE Repeat("g", gen_them - 3) \o "-grandnibling"
    ELSE IF gen_me = gen_them
    THEN IF gen_me = 0 THEN "self"
         ELSE IF gen_me = 1 THEN "sibling"
         ELSE str(gen_me - 1) \o "C"
    ELSE IF gen_them = 1
    THEN IF gen_me = 2 THEN "auncle"
         ELSE IF gen_me = 3 THEN "grandauncle"
         ELSE Repeat("g", gen_me - 3) \o "-grandauncle"
    ELSE cousin_removed(gen_me, gen_them)

\* the branches `if them == 0` and `elif me == 0`, for me = 0 or them = 0
direct_line(gen_me, gen_them) ==
    IF gen_them = 0
    THEN IF gen_me = 0 THEN "self"
         ELSE IF gen_me = 1 THEN "parent"
         ELSE IF gen_me = 2 THEN "grandparent"
         ELSE Repeat("g", gen_me - 2) \o "-grandparent"
    ELSE IF gen_them = 0 THEN "self"
    ELSE IF gen_them = 1 THEN "child"
    ELSE IF gen_them = 2 THEN "grandchild"
    ELSE Repeat("g", gen_them - 2) \o "-grandchild"

\* find_relation_label( me, them )
find_relation_label(gen_me, gen_them) ==
    IF gen_them = 0 \/ gen_me = 0
    THEN direct_line(gen_me, gen_them)
    ELSE near_line(gen_me, gen_them)

\* a plausible slip: the test for a half relation is inverted
half_prefix_inverted(closest) ==
    IF closest.fam = closest.match_fam THEN "half-" ELSE ""

\* half = 'half-' when closest['fam'] != closest['match-fam']
half_prefix(closest) ==
    IF closest.fam # closest.match_fam THEN "half-" ELSE ""

\* compute_relation( closest )
compute_relation(closest) ==
    LET gen_me == Len(closest.match_path)
        gen_them == Len(closest.path)
    IN  half_prefix(closest) \o find_relation_label(gen_me, gen_them)

\* a plausible slip: the loop breaks after the first partner type
does_fam_have_match_first_slot(matches, family) ==
    /\ family[partner_types[1]] # NoIndi
    /\ family[partner_types[1]] \in matches

\* does_fam_have_match( matches, family ): matches is the set of keys
does_fam_have_match(matches, family) ==
    \E k \in 1..Len(partner_types) :
        /\ family[partner_types[k]] # NoIndi
        /\ family[partner_types[k]] \in matches

(* ------------------------------ the script ---------------------------- *)

Range(seq) == { seq[k] : k \in 1..Len(seq) }

\* the elements of a set of integers in ascending order: the order in
\* which the script meets the individuals of data[i_key]
RECURSIVE Ascending(_)
Ascending(S) ==
    IF S = {} THEN <<>>
    ELSE LET m == CHOOSE x \in S : \A y \in S : x <= y
         IN  <<m>> \o Ascending(S \ {m})

\* What check_for_dna_event and extract_dna_cm make of the DNA event of an
\* individual.  The note is kept by its kind: "none" (no such event), "me",
\* "cm" (a number followed by cM, the number in the field cm), "unusable"
\* (several words, not a number followed by cM), "oneword" (at most one
\* word, other than me) and "nan" (nan followed by cM: float() accepts it
\* and int( round( result ) ) raises ValueError).  The value is -1 for
\* Python's None.
extract_dna_cm(note) ==
    IF note.kind = "cm"
    THEN IF note.cm < 0
         THEN [value |-> -1, diagnostic |-> TRUE, error |-> FALSE]
         ELSE [value |-> note.cm, diagnostic |-> FALSE, error |-> FALSE]
    ELSE IF note.kind = "unusable"
    THEN [value |-> -1, diagnostic |-> TRUE, error |-> FALSE]
    ELSE IF note.kind = "nan"
    THEN [value |-> -1, diagnostic |-> FALSE, error |-> TRUE]
    ELSE [value |-> -1, diagnostic |-> FALSE, error |-> FALSE]

\* does the loop over data[i_key] put indi into `matched`
is_matched(indi) ==
    LET note == data.indi[indi].dna
    IN  \/ note.kind = "me"
        \/ /\ note.kind \notin {"none", "me"}
           /\ extract_dna_cm(note).value # -1
           /\ OptMin <= extract_dna_cm(note).value
           /\ extract_dna_cm(note).value <= OptMax

\* the keys of `matched` as a set
Matches == Range(matched)

\* a plausible slip: the last test reads `len(matched) < 1`
fatal_message_one_is_enough(found_event, base, n_matched) ==
    IF ~found_event THEN "Didn't locate anyone with the selected event"
    ELSE IF base = NoIndi THEN "Didn't find base person"
    ELSE IF n_matched < 1 THEN "Didn't find anyone to match with"
    ELSE ""

\* the three tests that end in sys.exit(1): the message printed, "" when
\* the run goes on
fatal_message(found_event, base, n_matched) ==
    IF ~found_event THEN "Didn't locate anyone with the selected event"
    ELSE IF base = NoIndi THEN "Didn't find base person"
    ELSE IF n_matched < 2 THEN "Didn't find anyone to match with"
    ELSE ""

\* for indi in data[i_key]: ... and the three exits that follow.  The loop
\* stops at the first individual whose note makes extract_dna_cm raise.
ScanMatches ==
    /\ pc = "scan"
    /\ LET raising == { i \in Indi :
                            /\ data.indi[i].dna.kind \notin {"none", "me"}
                            /\ extract_dna_cm(data.indi[i].dna).error }
           seen == { i \in Indi : \A r \in raising : i < r }
           found_event == \E i \in seen : data.indi[i].dna.kind # "none"
           keys == Ascending({ i \in seen : is_matched(i) })
           mes == { i \in seen : data.indi[i].dna.kind = "me" }
           base == IF mes = {} THEN NoIndi
                   ELSE CHOOSE x \in mes : \A y \in mes : y <= x
           message == fatal_message(found_event, base, Len(keys))
       IN  /\ matched' = keys
           /\ me' = base
           /\ diagnostics' =
                  { i \in seen : /\ data.indi[i].dna.kind \notin {"none", "me"}
                                 /\ extract_dna_cm(data.indi[i].dna).diagnostic }
           /\ exit_message' = IF raising # {} THEN "" ELSE message
           /\ pc' = IF raising # {} THEN "ValueError"
                    ELSE IF message # "" THEN "exit_1"
                    ELSE "find_ancestors"
    /\ UNCHANGED << data, my_ancestors, common, relation, families_to_display,
                    common_fams, people_to_display, arg_me, arg_them, label,
                    multiple_marriages, dot, not_displayed, reported,
                    first_run >>

\* my_ancestors = dict(); find_ancestors( me, [], my_ancestors )
FindMyAncestors ==
    /\ pc = "find_ancestors"
    /\ LET r == find_ancestors(me, <<>>, EmptyDict)
       IN  /\ my_ancestors' = r.items
           /\ pc' = IF r.err THEN "RecursionError" ELSE "find_common"
    /\ UNCHANGED << data, me, matched, diagnostics, common, relation,
                    families_to_display, common_fams, people_to_display,
                    arg_me, arg_them, label,
                    multiple_marriages, dot, exit_message, not_displayed,
                    reported, first_run >>

\* for indi in matched: matched[indi]['common'] = ...
FindCommon ==
    /\ pc = "find_common"
    /\ LET found == [i \in Matches \ {me} |->
                         find_common_ancestor(i, me, my_ancestors)]
       IN  IF \E i \in Matches \ {me} : found[i].err
           THEN /\ pc' = "RecursionError"
                /\ UNCHANGED common
           ELSE /\ pc' = "relations"
                /\ common' = [i \in Matches |->
                                  IF i = me THEN NoneCommon ELSE found[i].result]
    /\ UNCHANGED << data, me, matched, diagnostics, my_ancestors, relation,
                    families_to_display, common_fams, people_to_display,
                    arg_me, arg_them, label,
                    multiple_marriages, dot, exit_message, not_displayed,
                    reported, first_run >>

\* for indi in matched: if matched[indi]['common']: matched[indi]['relation'] = ...
ComputeRelations ==
    /\ pc = "relations"
    /\ relation' = [i \in Matches |->
                        IF Truthy(common[i]) THEN compute_relation(common[i])
                        ELSE ""]
    /\ pc' = "families"
    /\ UNCHANGED << data, me, matched, diagnostics, my_ancestors, common,
                    families_to_display, common_fams, people_to_display,
                    arg_me, arg_them, label,
                    multiple_marriages, dot, exit_message, not_displayed,
                    reported, first_run >>

\* a plausible slip: the step to one older generation is left out
older_generation_never(closest) == {}

\* for half relationships, step to one older generation
older_generation(closest) ==
    IF closest.fam # closest.match_fam /\ famc_of(closest.indi) # NoFam
    THEN {famc_of(closest.indi)}
    ELSE {}

\* the keys that one turn of the loop `for indi in matched` adds to
\* families_to_display
families_of(closest) ==
    {closest.fam, closest.match_fam}
        \cup Range(closest.path) \cup Range(closest.match_path)
        \cup older_generation(closest)

\* the loop `for indi in matched` that fills families_to_display, from the
\* k-th match on; acc is the set of keys so far
RECURSIVE collect_families(_, _)
collect_families(k, acc) ==
    IF k > Len(matched) THEN acc
    ELSE IF Truthy(common[matched[k]])
    THEN collect_families(k + 1, acc \cup families_of(common[matched[k]]))
    ELSE collect_families(k + 1, acc)

\* families_to_display = dict(); for indi in matched: ...
CollectFamilies ==
    /\ pc = "families"
    /\ families_to_display' = [f \in collect_families(1, {}) |-> FALSE]
    /\ pc' = "test_families"
    /\ UNCHANGED << data, me, matched, diagnostics, my_ancestors, common,
                    relation, common_fams, people_to_display,
                    arg_me, arg_them, label,
                    multiple_marriages, dot, exit_message, not_displayed,
                    reported, first_run >>

\* for fam in families_to_display: families_to_display[fam] = does_fam_have_match(...)
TestFamilies ==
    /\ pc = "test_families"
    /\ families_to_display' =
           [f \in DOMAIN families_to_display |->
                does_fam_have_match(Matches, data.fam[f])]
    /\ pc' = "common_fams"
    /\ UNCHANGED << data, me, matched, diagnostics, my_ancestors, common,
                    relation, common_fams, people_to_display,
                    arg_me, arg_them, label,
                    multiple_marriages, dot, exit_message, not_displayed,
                    reported, first_run >>

\* the loop `for indi in matched: if indi != me:` that fills common_fams,
\* from the k-th match on
RECURSIVE fill_common_fams(_, _)
fill_common_fams(k, acc) ==
    IF k > Len(matched) THEN acc
    ELSE IF matched[k] = me THEN fill_common_fams(k + 1, acc)
    ELSE LET c == common[matched[k]]
             text == find_relation_label(Len(c.match_path), 0) \o "s"
         IN  fill_common_fams(k + 1,
                 [f \in DOMAIN acc \cup {c.match_fam} |->
                      IF f = c.match_fam THEN text ELSE acc[f]])

\* common_fams = dict() and its two loops.  matched[indi]['common']['indi']
\* raises KeyError when the dict of a match is empty.
FindCommonFams ==
    /\ pc = "common_fams"
    /\ IF \E i \in Matches \ {me} : common[i].indi = NoIndi
       THEN /\ pc' = "KeyError"
            /\ UNCHANGED common_fams
       ELSE /\ pc' = "people"
            /\ common_fams' =
                   LET filled == fill_common_fams(1, << >>)
                   IN  [f \in DOMAIN filled |->
                            IF families_to_display[f] THEN "" ELSE filled[f]]
    /\ UNCHANGED << data, me, matched, diagnostics, my_ancestors, common,
                    relation, families_to_display, people_to_display,
                    arg_me, arg_them, label,
                    multiple_marriages, dot, exit_message, not_displayed,
                    reported, first_run >>

\* a plausible slip: the loop that adds the matches is left out
people_of_matches_only_me == {me}

\* people_to_display.add( me ) and the loop `for indi in matched`
people_of_matches == {me} \cup { i \in Matches : Truthy(common[i]) }

\* the loop `for fam in families_to_display: for partner in partner_types`
people_of_families ==
    LET slots == (DOMAIN families_to_display) \X (1..Len(partner_types))
        filled == { s \in slots :
                        partner_of(s[1], partner_types[s[2]]) # NoIndi }
    IN  { partner_of(s[1], partner_types[s[2]]) : s \in filled }

\* people_to_display = set() and its two loops
CollectPeople ==
    /\ pc = "people"
    /\ people_to_display' = (people_of_matches \cup people_of_families)
    /\ pc' = "marriages"
    /\ UNCHANGED << data, me, matched, diagnostics, my_ancestors, common,
                    relation, families_to_display, common_fams,
                    arg_me, arg_them, label,
                    multiple_marriages, dot, exit_message, not_displayed,
                    reported, first_run >>

\* data[i_key][indi]['fams'], the empty set when the key is absent
fams_of(indi) == data.indi[indi].fams

\* a plausible slip: the test `if fam in families_to_show` is applied to
\* the list returned only, every family of the person is counted
find_families_of_multiple_marriages_counts_all(people_to_show, families_to_show) ==
    [indi \in { i \in people_to_show : Cardinality(fams_of(i)) > 1 } |->
         fams_of(indi) \cap families_to_show]

\* find_families_of_multiple_marriages( people_to_show, families_to_show ):
\* families_to_show is the set of keys; the lists of the result are kept
\* as sets (they are made from sets, in no particular order)
find_families_of_multiple_marriages(people_to_show, families_to_show) ==
    [indi \in { i \in people_to_show :
                    Cardinality(fams_of(i) \cap families_to_show) > 1 } |->
         fams_of(indi) \cap families_to_show]

\* multiple_marriages = find_families_of_multiple_marriages( ... )
FindMultipleMarriages ==
    /\ pc = "marriages"
    /\ multiple_marriages' =
           find_families_of_multiple_marriages(people_to_display,
                                               DOMAIN families_to_display)
    /\ pc' = "output"
    /\ UNCHANGED << data, me, matched, diagnostics, my_ancestors, common,
                    relation, families_to_display, common_fams,
                    people_to_display, arg_me, arg_them, label,
                    dot, exit_message, not_displayed, reported, first_run >>

(* -------------------------- dot_labels, dot_connect ------------------- *)

\* make_fam_dot_id( fam ) + ':' + port and make_indi_dot_id( indi ) + ':i':
\* a place of the graph is a node ("f" or "i" and the id) and a port
fam_place(fam, port) == [node |-> "f", id |-> fam, port |-> port]
indi_place(indi) == [node |-> "i", id |-> indi, port |-> "i"]

\* partner[0]: "w" or "h"
port_of(partner) == SubSeq(partner, 1, 1)

\* get_family_of_child( indi ): the first famc family, as a set
get_family_of_child(indi) ==
    IF famc_of(indi) = NoFam THEN {} ELSE {famc_of(indi)}

\* the partners of the families shown: already_indi after the loop
\* `for fam in fam_to_show` of dot_labels and of dot_connect
partners_shown(families_to_show) ==
    { partner_of(s[1], partner_types[s[2]]) :
          s \in { t \in families_to_show \X (1..Len(partner_types)) :
                      partner_of(t[1], partner_types[t[2]]) # NoIndi } }

\* dot_labels: the families and the individuals that get a label (a node)
dot_labels(fam_to_show, people_to_show) ==
    [fam |-> fam_to_show,
     indi |-> people_to_show \ partners_shown(fam_to_show)]

\* the loop `for fam in families_to_show` of dot_connect: the routes from
\* a partner's port to the family the partner is a child of
routes_of_families(families_to_show) ==
    { <<fam_place(s[1], port_of(partner_types[s[2]])),
        fam_place(famc_of(partner_of(s[1], partner_types[s[2]])), "u")>> :
          s \in { t \in families_to_show \X (1..Len(partner_types)) :
                      /\ partner_of(t[1], partner_types[t[2]]) # NoIndi
                      /\ get_family_of_child(
                             partner_of(t[1], partner_types[t[2]]))
                           \cap families_to_show # {} } }

\* a plausible slip: the test `indi not in already_indi` is dropped, a
\* partner of a displayed family gets a route from a node of its own too
routes_of_individuals_all_people(families_to_show, people_to_show) ==
    { <<indi_place(i), fam_place(famc_of(i), "u")>> :
          i \in { j \in people_to_show :
                      get_family_of_child(j) \cap families_to_show # {} } }

\* the loop `for indi in people_to_show` of dot_connect
routes_of_individuals(families_to_show, people_to_show) ==
    { <<indi_place(i), fam_place(famc_of(i), "u")>> :
          i \in { j \in people_to_show \ partners_shown(families_to_show) :
                      get_family_of_child(j) \cap families_to_show # {} } }

\* dot_connect( families_to_show, people_to_show, do_reverse ): the set
\* routes; do_reverse changes the direction in which a route is printed
dot_connect(families_to_show, people_to_show) ==
    routes_of_families(families_to_show)
        \cup routes_of_individuals(families_to_show, people_to_show)

\* nothing written to stdout yet
NoDot == [written |-> FALSE, fam |-> {}, indi |-> {}, routes |-> {}]

\* the output in the default format: begin_dot, dot_labels, dot_connect,
\* end_dot
Output ==
    /\ pc = "output"
    /\ dot' = [written |-> TRUE,
               fam |-> dot_labels(DOMAIN families_to_display,
                                  people_to_display).fam,
               indi |-> dot_labels(DOMAIN families_to_display,
                                   people_to_display).indi,
               routes |-> dot_connect(DOMAIN families_to_display,
                                      people_to_display)]
    /\ pc' = "not_displayed"
    /\ UNCHANGED << data, me, matched, diagnostics, my_ancestors, common,
                    relation, families_to_display, common_fams,
                    people_to_display, arg_me, arg_them, label,
                    multiple_marriages, exit_message, not_displayed,
                    reported, first_run >>

\* the elements of seq that are not in S, in the order of seq
RECURSIVE Without(_, _)
Without(seq, S) ==
    IF seq = << >> THEN << >>
    ELSE IF seq[1] \in S THEN Without(Tail(seq), S)
    ELSE <<seq[1]>> \o Without(Tail(seq), S)

\* not_displayed = [] and its loop; then, if not_displayed, one line is
\* printed, for `indi`: the variable of the loop, left at the last key of
\* matched
ReportNotDisplayed ==
    /\ pc = "not_displayed"
    /\ not_displayed' = Without(matched, people_to_display)
    /\ reported' = IF Without(matched, people_to_display) # << >>
                   THEN {matched[Len(matched)]}
                   ELSE {}
    /\ pc' = "done"
    /\ UNCHANGED << data, me, matched, diagnostics, my_ancestors, common,
                    relation, families_to_display, common_fams,
                    people_to_display, arg_me, arg_them, label,
                    multiple_marriages, dot, exit_message, first_run >>

\* a lone call of find_relation_label
CallRelationLabel ==
    /\ pc = "label"
    /\ label' = find_relation_label(arg_me, arg_them)
    /\ pc' = "label_done"
    /\ UNCHANGED << data, me, matched, diagnostics, my_ancestors, common,
                    relation, families_to_display, common_fams,
                    people_to_display, arg_me, arg_them,
                    multiple_marriages, dot, exit_message, not_displayed,
                    reported, first_run >>

\* The run is made again with the names in partner_types swapped ("the
\* display ordering can be changed by swapping the names in this list").
\* Every use of the list is a loop over the two slots of a family, so
\* visiting husb before wife in a store is visiting wife before husb in
\* the store whose families have the two slots exchanged: the second run
\* is the program on that store.  The results of the first run are kept.
RunReversed ==
    /\ pc = "done"
    /\ ~first_run.done
    /\ first_run' = [done |-> TRUE,
                     relation |-> relation,
                     families |-> DOMAIN families_to_display,
                     people |-> people_to_display]
    /\ data' = [data EXCEPT !.fam =
                    [f \in DOMAIN data.fam |->
                         [wife |-> data.fam[f].husb, husb |-> data.fam[f].wife]]]
    /\ pc' = "scan"
    /\ me' = NoIndi
    /\ matched' = << >>
    /\ diagnostics' = {}
    /\ my_ancestors' = << >>
    /\ common' = << >>
    /\ relation' = << >>
    /\ families_to_display' = << >>
    /\ common_fams' = << >>
    /\ people_to_display' = {}
    /\ multiple_marriages' = << >>
    /\ dot' = [written |-> FALSE, fam |-> {}, indi |-> {}, routes |-> {}]
    /\ exit_message' = ""
    /\ not_displayed' = << >>
    /\ reported' = {}
    /\ UNCHANGED << arg_me, arg_them, label >>

(* ------------------------------ the stores ---------------------------- *)

\* The parents an individual can have in an acyclic store: the partners
\* of a family have larger ids than its children.  <<0, 0>> is no famc;
\* a family with one partner has that partner as wife.
ParentChoices(i) ==
    {<<NoIndi, NoIndi>>}
        \cup { <<w, NoIndi>> : w \in (i + 1)..NumIndi }
        \cup { <<w, h>> \in ((i + 1)..NumIndi) \X ((i + 1)..NumIndi) : w # h }

\* the assignments of parents to the individuals 1..n, one choice each
RECURSIVE ParentMaps(_)
ParentMaps(n) ==
    IF n = 0 THEN { << >> }
    ELSE { Append(par, c) : par \in ParentMaps(n - 1), c \in ParentChoices(n) }

\* data as readgedcom returns it for the parents par and the DNA notes dna
StoreOf(par, dna) ==
    [indi |-> [i \in Indi |->
                  [famc |-> IF par[i][1] = NoIndi THEN NoFam
                            ELSE FamId(par[i][1], par[i][2]),
                   fams |-> { FamId(par[j][1], par[j][2]) :
                                  j \in { c \in Indi : i \in {par[c][1], par[c][2]} } },
                   dna |-> dna[i]]],
     fam |-> [f \in { FamId(par[i][1], par[i][2]) :
                          i \in { j \in Indi : par[j][1] # NoIndi } } |->
                  LET i == CHOOSE j \in Indi :
                               par[j][1] # NoIndi
                               /\ FamId(par[j][1], par[j][2]) = f
                  IN  [wife |-> par[i][1], husb |-> par[i][2]]]]

\* DNA notes: base is "me", the members of ms are matches of 100 cM
NotesOf(base, ms) ==
    [i \in Indi |->
        IF i = base THEN [kind |-> "me", cm |-> 0]
        ELSE IF i \in ms THEN [kind |-> "cm", cm |-> 100]
        ELSE [kind |-> "none", cm |-> 0]]

\* no run has been kept for comparison
NoRun == [done |-> FALSE, relation |-> << >>, families |-> {}, people |-> {}]

MatchSets(base) ==
    { ms \in SUBSET (Indi \ {base}) :
          Cardinality(ms) >= 1 /\ Cardinality(ms) <= MaxMatches }

InitRest ==
    /\ pc = "scan"
    /\ me = NoIndi
    /\ matched = << >>
    /\ diagnostics = {}
    /\ my_ancestors = << >>
    /\ common = << >>
    /\ relation = << >>
    /\ families_to_display = << >>
    /\ common_fams = << >>
    /\ people_to_display = {}
    /\ multiple_marriages = << >>
    /\ dot = NoDot
    /\ exit_message = ""
    /\ not_displayed = << >>
    /\ reported = {}
    /\ first_run = NoRun
    /\ arg_me = 0
    /\ arg_them = 0
    /\ label = ""

\* an acyclic store, a base person and one to MaxMatches matches
Init ==
    /\ \E par \in ParentMaps(NumIndi), base \in Indi :
           \E ms \in MatchSets(base) :
               data = StoreOf(par, NotesOf(base, ms))
    /\ InitRest

\* an acyclic store, a base person and one match
InitOrder ==
    /\ \E par \in ParentMaps(NumIndi), base \in Indi :
           \E m \in Indi \ {base} :
               data = StoreOf(par, NotesOf(base, {m}))
    /\ InitRest

\* Any store in which every family has one partner, ancestry cycles
\* included: each individual is the child of nobody or of the family of
\* any individual, itself included.  Individual 1 is the base person and
\* individual 2 the match (the ids are interchangeable here).
InitCyclic ==
    /\ \E mother \in [Indi -> Indi \cup {NoIndi}] :
           data = StoreOf([i \in Indi |-> <<mother[i], NoIndi>>],
                          NotesOf(1, {2}))
    /\ InitRest

\* the DNA events an individual can carry: none, me, a usable value, a
\* value below zero, a value above options['max'], and the three kinds of
\* note that are no value
NoteChoices ==
    { [kind |-> "none", cm |-> 0], [kind |-> "me", cm |-> 0],
      [kind |-> "cm", cm |-> 100], [kind |-> "cm", cm |-> 0 - 5],
      [kind |-> "cm", cm |-> OptMax + 1],
      [kind |-> "unusable", cm |-> 0], [kind |-> "oneword", cm |-> 0],
      [kind |-> "nan", cm |-> 0] }

\* One family tree and every assignment of DNA events to its individuals:
\* the last individual is the only parent of all the others but one, who
\* is related to nobody.
InitNotes ==
    /\ \E dna \in [Indi -> NoteChoices] :
           data = StoreOf([i \in Indi |->
                              IF i < NumIndi - 1 THEN <<NumIndi, NoIndi>>
                              ELSE <<NoIndi, NoIndi>>],
                          dna)
    /\ InitRest

\* a lone call of find_relation_label on generation distances 0..MaxGen
InitLabel ==
    /\ data = StoreOf([i \in Indi |-> <<NoIndi, NoIndi>>], NotesOf(NoIndi, {}))
    /\ pc = "label"
    /\ me = NoIndi
    /\ matched = << >>
    /\ diagnostics = {}
    /\ my_ancestors = << >>
    /\ common = << >>
    /\ relation = << >>
    /\ families_to_display = << >>
    /\ common_fams = << >>
    /\ people_to_display = {}
    /\ multiple_marriages = << >>
    /\ dot = NoDot
    /\ exit_message = ""
    /\ not_displayed = << >>
    /\ reported = {}
    /\ first_run = NoRun
    /\ arg_me \in 0..MaxGen
    /\ arg_them \in 0..MaxGen
    /\ label = ""

Next ==
    \/ ScanMatches
    \/ FindMyAncestors
    \/ FindCommon
    \/ ComputeRelations
    \/ CollectFamilies
    \/ TestFamilies
    \/ FindCommonFams
    \/ CollectPeople
    \/ FindMultipleMarriages
    \/ Output
    \/ ReportNotDisplayed

Spec == Init /\ [][Next]_vars

SpecCyclic == InitCyclic /\ [][Next]_vars

SpecNotes == InitNotes /\ [][Next]_vars

NextOrder ==
    \/ Next
    \/ RunReversed

SpecOrder == InitOrder /\ [][NextOrder]_vars

NextLabel == CallRelationLabel

SpecLabel == InitLabel /\ [][NextLabel]_vars

(* ------------------ the store, read without the program --------------- *)

\* the individuals in the partner slots of the first famc family of i
Parents(i) ==
    IF data.indi[i].famc = NoFam THEN {}
    ELSE { data.fam[data.indi[i].famc].wife,
           data.fam[data.indi[i].famc].husb } \ {NoIndi}

\* the individuals n generations above X along some upward chain
RECURSIVE GenerationUp(_, _)
GenerationUp(X, n) ==
    IF n = 0 THEN {X}
    ELSE UNION { Parents(p) : p \in GenerationUp(X, n - 1) }

\* every ancestor of X (an acyclic store has no chain longer than NumIndi)
ReachableUp(X) == UNION { GenerationUp(X, n) : n \in 1..NumIndi }

\* the length of the shortest upward chain from X to its ancestor A
MinGenerations(X, A) ==
    CHOOSE n \in 1..NumIndi :
        /\ A \in GenerationUp(X, n)
        /\ \A m \in 1..(n - 1) : A \notin GenerationUp(X, m)

\* the dict that find_ancestors fills for the subject X
AncestorsOf(X) == find_ancestors(X, <<>>, EmptyDict).items

Entries(items, A) == { k \in 1..Len(items) : items[k].indi = A }

StartsWith(s, prefix) ==
    Len(s) >= Len(prefix) /\ SubSeq(s, 1, Len(prefix)) = prefix

\* the keys present in both the dict of the match and the dict of the base
CommonAncestors(i) ==
    { A \in Indi : HasKey(AncestorsOf(i), A) /\ HasKey(my_ancestors, A) }

\* neither the match nor the base person is a direct ancestor of the other
Collateral(i) == ~HasKey(AncestorsOf(i), me) /\ ~HasKey(my_ancestors, i)

\* the script has run `for indi in matched: matched[indi]['common'] = ...`
CommonDone ==
    pc \in {"relations", "families", "test_families", "common_fams",
            "KeyError", "people", "marriages", "output", "not_displayed",
            "done"}

\* ... and the loop that sets matched[indi]['relation']
RelationsDone ==
    pc \in {"families", "test_families", "common_fams", "KeyError", "people",
            "marriages", "output", "not_displayed", "done"}

\* ... and the loop that fills families_to_display
FamiliesDone ==
    pc \in {"test_families", "common_fams", "KeyError", "people", "marriages",
            "output", "not_displayed", "done"}

(* -------------------------------- claims ------------------------------ *)

\* C1: in an acyclic store, for every subject X and every ancestor A
\* reachable upward from X through first famc links, find_ancestors leaves
\* exactly one entry for A and the length of its path is the length of the
\* shortest upward chain from X to A.  (Every store of Spec is acyclic; the
\* dict of the base person is the one the script has just filled.)
C1_ShortestPathKept ==
    pc = "find_common" =>
        /\ my_ancestors = AncestorsOf(me)
        /\ \A X \in Indi :
               LET r == find_ancestors(X, <<>>, EmptyDict)
               IN  /\ ~r.err
                   /\ \A A \in ReachableUp(X) :
                          /\ Cardinality(Entries(r.items, A)) = 1
                          /\ Len(Item(r.items, A).path) = MinGenerations(X, A)

\* the base person reaches an ancestor by chains of two different lengths,
\* the longer one through the partner that is visited last
C1_Witness ==
    /\ pc = "find_common"
    /\ \E A \in Indi, n \in 1..NumIndi, m \in 1..NumIndi :
           /\ n < m
           /\ A \in GenerationUp(me, n)
           /\ A \in GenerationUp(me, m)
           /\ Len(Item(my_ancestors, A).path) = n
           /\ data.fam[data.indi[me].famc].wife = A

\* C2: find_ancestors returns for every subject even when the store holds
\* an ancestry cycle; the cyclic branch is cut off, so the run never ends in
\* an unbounded recursion.
C2_ReturnsOnCycle == pc # "RecursionError"

\* C3: in the collateral case the ancestor returned by find_common_ancestor
\* is, among the ancestors present in both dicts, one at the least distance
\* from the base person (length of the base person's recorded path).
C3_NearestToBase ==
    CommonDone =>
        \A i \in Matches \ {me} :
            (Collateral(i) /\ Truthy(common[i])) =>
                \A A \in CommonAncestors(i) :
                    Len(Item(my_ancestors, common[i].indi).path)
                        <= Len(Item(my_ancestors, A).path)

\* C4: a match without any ancestor in common with the base person gets the
\* empty dict and the run goes on to its end: it does not stop on an error.
C4_NoCommonAncestorIsNoError ==
    ~(/\ pc = "KeyError"
      /\ \E i \in Matches \ {me} : common[i] = EmptyCommon)

\* n letters g, the prefix of the great-grand levels
RECURSIVE Letters(_)
Letters(n) == IF n <= 0 THEN "" ELSE "g" \o Letters(n - 1)

\* the relation of a direct ancestor n generations up
AncestorName(n) ==
    IF n = 1 THEN "parent"
    ELSE IF n = 2 THEN "grandparent"
    ELSE Letters(n - 2) \o "-grandparent"

\* the relation of a direct descendant n generations down
DescendantName(n) ==
    IF n = 1 THEN "child"
    ELSE IF n = 2 THEN "grandchild"
    ELSE Letters(n - 2) \o "-grandchild"

\* C5: a match that is a direct ancestor of the base person, n generations
\* up by the shortest chain, gets the relation parent, grandparent or n - 2
\* letters g and -grandparent; a direct descendant gets child, grandchild
\* or the -grandchild form; no half- prefix, and so also when the two share
\* further ancestors.
C5_DirectLine ==
    RelationsDone =>
        \A i \in Matches \ {me} :
            /\ i \in ReachableUp(me) =>
                   relation[i] = AncestorName(MinGenerations(me, i))
            /\ me \in ReachableUp(i) =>
                   relation[i] = DescendantName(MinGenerations(i, me))

\* a match three or more generations up that has ancestors of its own,
\* which the base person shares
C5_Witness ==
    /\ pc = "families"
    /\ \E i \in Matches \ {me} :
           /\ i \in ReachableUp(me)
           /\ MinGenerations(me, i) >= 3
           /\ CommonAncestors(i) # {}
           /\ relation[i] = "g-grandparent"

\* the family of ancestor A at the top of the recorded chain of subject X
FamilyUnder(X, A) ==
    LET path == Item(AncestorsOf(X), A).path IN path[Len(path)]

C7_LabelTotal ==
    pc = "label_done" => (label # "N/A" /\ label # "")

\* a call that reaches the last branch of the function
C7_Witness ==
    /\ pc = "label_done"
    /\ arg_me = 3
    /\ arg_them = 5
    /\ label = "2C2R"

Min(a, b) == IF a <= b THEN a ELSE b
Abs(a) == IF a < 0 THEN 0 - a ELSE a

\* C8: for distances that are both >= 2 the label is (n-1)C when both are
\* n, and else dCrR with d = min(me, them) - 1 and r = |me - them|; the
\* label is the same when the two arguments are exchanged.
C8_CousinLabel ==
    (pc = "label_done" /\ arg_me >= 2 /\ arg_them >= 2) =>
        /\ label = IF arg_me = arg_them
                   THEN ToString(arg_me - 1) \o "C"
                   ELSE ToString(Min(arg_me, arg_them) - 1) \o "C"
                            \o ToString(Abs(arg_me - arg_them)) \o "R"
        /\ label = find_relation_label(arg_them, arg_me)

\* a cousin on the older side of the base person
C8_Witness ==
    /\ pc = "label_done"
    /\ arg_me = 4
    /\ arg_them = 2
    /\ label = "1C2R"

\* C9: with the base person one generation below the common ancestor and
\* the match n >= 1 below, the label is sibling, nibling, grandnibling or
\* n - 3 letters g and -grandnibling; with the match one generation below
\* and the base person n >= 2 below, it is auncle, grandauncle or n - 3
\* letters g and -grandauncle: never a cousin label.
C9_NearLine ==
    pc = "label_done" =>
        /\ (arg_me = 1 /\ arg_them >= 1) =>
               label = IF arg_them = 1 THEN "sibling"
                       ELSE IF arg_them = 2 THEN "nibling"
                       ELSE IF arg_them = 3 THEN "grandnibling"
                       ELSE Letters(arg_them - 3) \o "-grandnibling"
        /\ (arg_them = 1 /\ arg_me >= 2) =>
               label = IF arg_me = 2 THEN "auncle"
                       ELSE IF arg_me = 3 THEN "grandauncle"
                       ELSE Letters(arg_me - 3) \o "-grandauncle"

\* a great-grand level on the auncle side
C9_Witness ==
    /\ pc = "label_done"
    /\ arg_me = 5
    /\ arg_them = 1
    /\ label = "gg-grandauncle"

\* the matches whose common-ancestor dict is not empty
Resolved == { i \in Matches : Truthy(common[i]) }

\* C10: the displayed families are exactly the families in path,
\* match-path, fam and match-fam of the matches with a non-empty
\* common-ancestor dict, plus, for each such match with fam != match-fam,
\* the first famc family of the common ancestor when it has one.
C10_DisplayedFamilies ==
    FamiliesDone =>
        DOMAIN families_to_display =
            UNION { {common[i].fam, common[i].match_fam}
                        \cup { common[i].path[k] :
                                   k \in 1..Len(common[i].path) }
                        \cup { common[i].match_path[k] :
                                   k \in 1..Len(common[i].match_path) }
                        \cup { f \in {data.indi[common[i].indi].famc} :
                                   /\ f # NoFam
                                   /\ common[i].fam # common[i].match_fam }
                    : i \in Resolved }

\* two resolved matches, one of them a half relation whose common ancestor
\* has a family of its own, which is displayed for that reason only
C10_Witness ==
    /\ pc = "test_families"
    /\ Cardinality(Resolved) = 2
    /\ \E i \in Resolved :
           /\ common[i].fam # common[i].match_fam
           /\ data.indi[common[i].indi].famc # NoFam
           /\ data.indi[common[i].indi].famc \in DOMAIN families_to_display
           /\ \A j \in Resolved :
                  data.indi[common[i].indi].famc
                      \notin ({common[j].fam, common[j].match_fam}
                                  \cup Range(common[j].path)
                                  \cup Range(common[j].match_path))

\* ... and the loop that sets the flags of families_to_display
FlagsDone ==
    pc \in {"common_fams", "KeyError", "people", "marriages", "output",
            "not_displayed", "done"}

\* ... and the loops that fill people_to_display
PeopleDone == pc \in {"marriages", "output", "not_displayed", "done"}

\* ... and the call of find_families_of_multiple_marriages
MarriagesDone == pc \in {"output", "not_displayed", "done"}

\* the individuals in the partner slots of family f
PartnersOf(f) == {data.fam[f].wife, data.fam[f].husb} \ {NoIndi}

\* the children of family f
ChildrenOf(f) == { i \in Indi : data.indi[i].famc = f }

\* C11: once the flags are set, a displayed family is flagged True if and
\* only if one of its partner slots holds a member of the match set (the
\* base person included); a child that is a match does not set the flag.
C11_FlagIsParentMatch ==
    FlagsDone =>
        \A f \in DOMAIN families_to_display :
            families_to_display[f] <=> (PartnersOf(f) \cap Matches # {})

\* a displayed family whose only match is a child and is not flagged, and
\* a displayed family flagged for its husband alone
C11_Witness ==
    /\ pc = "common_fams"
    /\ \E f \in DOMAIN families_to_display :
           /\ ChildrenOf(f) \cap Matches # {}
           /\ ~families_to_display[f]
    /\ \E f \in DOMAIN families_to_display :
           /\ data.fam[f].wife \notin Matches
           /\ data.fam[f].husb \in Matches
           /\ families_to_display[f]

\* C12: people_to_display is exactly the base person, the matches with a
\* non-empty common-ancestor dict and the individuals in the partner slots
\* of the displayed families.
C12_DisplayedPeople ==
    PeopleDone =>
        people_to_display =
            {me} \cup Resolved
                 \cup UNION { PartnersOf(f) : f \in DOMAIN families_to_display }

\* a displayed match that is a partner of no displayed family, a displayed
\* partner that is no match, and an individual that is not displayed
C12_Witness ==
    /\ pc = "marriages"
    /\ \E i \in Resolved :
           /\ i \in people_to_display
           /\ \A f \in DOMAIN families_to_display : i \notin PartnersOf(f)
    /\ \E i \in people_to_display : i \notin Matches
    /\ \E i \in Indi : i \notin people_to_display

\* the displayed families in which i occupies a partner slot
DisplayedUnions(i) ==
    { f \in DOMAIN families_to_display : i \in PartnersOf(f) }

\* C13: multiple_marriages has exactly the displayed individuals that are
\* a partner of more than one displayed family, each with exactly those
\* families; families that are not displayed do not count.
C13_MultipleUnions ==
    MarriagesDone =>
        /\ DOMAIN multiple_marriages =
               { i \in people_to_display : Cardinality(DisplayedUnions(i)) > 1 }
        /\ \A i \in DOMAIN multiple_marriages :
               multiple_marriages[i] = DisplayedUnions(i)

\* an individual with two displayed unions, and a displayed individual
\* with two unions in the store of which one only is displayed
C13_Witness ==
    /\ pc = "output"
    /\ \E i \in DOMAIN multiple_marriages :
           Cardinality(multiple_marriages[i]) = 2
    /\ \E i \in people_to_display :
           /\ Cardinality({ f \in DOMAIN data.fam : i \in PartnersOf(f) }) = 2
           /\ Cardinality(DisplayedUnions(i)) = 1
           /\ i \notin DOMAIN multiple_marriages

\* ... and the output
OutputDone == pc \in {"not_displayed", "done"}

\* the nodes of the graph written: a family node or an individual node
GraphNodes ==
    { <<"f", f>> : f \in dot.fam } \cup { <<"i", i>> : i \in dot.indi }

\* the nodes that show individual p: the nodes of the displayed families
\* with p in a partner slot, and the node of p itself
NodesShowing(p) ==
    { <<"f", f>> : f \in { g \in dot.fam : p \in PartnersOf(g) } }
        \cup { <<"i", i>> : i \in dot.indi \cap {p} }

\* the nodes one edge away from a node of S, in either direction
Neighbours(S) ==
    { <<r[2].node, r[2].id>> :
          r \in { e \in dot.routes : <<e[1].node, e[1].id>> \in S } }
    \cup { <<r[1].node, r[1].id>> :
               r \in { e \in dot.routes : <<e[2].node, e[2].id>> \in S } }

\* the nodes joined to a node of S by a chain of at most n edges
RECURSIVE Within(_, _)
Within(S, n) == IF n = 0 THEN S ELSE Within(S \cup Neighbours(S), n - 1)

\* the nodes joined to a node of S by a chain of edges
Component(S) == Within(S, Cardinality(GraphNodes))

\* C14: in the graph written, every match with a non-empty common-ancestor
\* dict is joined to the base person by a chain of edges, half relations
\* included: some node showing the match is in the component of some node
\* showing the base person.
C14_MatchesConnected ==
    OutputDone =>
        \A i \in Resolved \ {me} :
            NodesShowing(i) \cap Component(NodesShowing(me)) # {}

\* the DNA event of individual i, as the store holds it
NoteOf(i) == data.indi[i].dna

\* i carries the self marker
IsSelf(i) == NoteOf(i).kind = "me"

\* the note of i is a strength value that parses and is not negative
IsStrength(i) == NoteOf(i).kind = "cm" /\ NoteOf(i).cm >= 0

\* i qualifies for the match set: the base person, or a strength value
\* within options['min'] .. options['max']
Qualifies(i) ==
    \/ IsSelf(i)
    \/ IsStrength(i) /\ OptMin <= NoteOf(i).cm /\ NoteOf(i).cm <= OptMax

\* C15: when nobody carries the self marker, or fewer than two individuals
\* qualify for the match set, the run ends before anything is written to
\* stdout, with exit status 1 and one of the messages of lines 1016-1028
\* (or, on a note that makes extract_dna_cm raise, with the traceback of
\* the uncaught exception, which is a non-zero exit status too).
C15_FatalExit ==
    (/\ pc # "scan"
     /\ \/ \A i \in Indi : ~IsSelf(i)
        \/ Cardinality({ i \in Indi : Qualifies(i) }) < 2) =>
        /\ ~dot.written
        /\ \/ pc = "exit_1" /\ exit_message # ""
           \/ pc = "ValueError"

\* the base person is there, but the only other individual with a DNA
\* event has a note that is no value
C15_Witness ==
    /\ pc = "exit_1"
    /\ me # NoIndi
    /\ matched = <<me>>
    /\ exit_message = "Didn't find anyone to match with"
    /\ \E i \in Indi : NoteOf(i).kind = "unusable"
    /\ ~dot.written

\* C16: every individual whose DNA note is neither the self marker nor a
\* strength value that parses and is not negative is left out of the match
\* set and named in a diagnostic, and the run is not stopped by that note.
C16_UnparseableDiagnosed ==
    pc # "scan" =>
        \A i \in Indi :
            (NoteOf(i).kind # "none" /\ ~IsSelf(i) /\ ~IsStrength(i)) =>
                /\ i \notin Matches
                /\ i \in diagnostics
                /\ pc # "ValueError"

\* the run has ended past the scan: at its last statement or on the
\* KeyError of the loop that fills common_fams
RunEnded == pc \in {"done", "KeyError"}

\* C17: when a run has ended, every key of matched that is not in
\* people_to_display is named in the "Matches who are not displayed"
\* message, and nobody who is displayed is named there.
C17_NotDisplayedReported ==
    RunEnded =>
        /\ \A i \in Matches : i \notin people_to_display => i \in reported
        /\ reported \cap people_to_display = {}

\* the common ancestors of match i and the base person at the least
\* distance from the base person
TiedNearest(i) ==
    { A \in CommonAncestors(i) :
          \A B \in CommonAncestors(i) :
              Len(Item(my_ancestors, A).path) <= Len(Item(my_ancestors, B).path) }

\* the match i and the base person reach ancestor A through the same family
SameFamilyBothSides(i, A) ==
    Item(AncestorsOf(i), A).fam = Item(my_ancestors, A).fam

\* C18: in the collateral case, when several common ancestors are tied at
\* the least distance (from the base person, as in C3) and one of them is
\* reached through the same family on both sides, the record returned has
\* fam = match-fam: a full relation is chosen over a half relation.
C18_FullPreferredOnTie ==
    CommonDone =>
        \A i \in Matches \ {me} :
            (/\ Collateral(i)
             /\ Truthy(common[i])
             /\ Cardinality(TiedNearest(i)) >= 2
             /\ \E A \in TiedNearest(i) : SameFamilyBothSides(i, A)) =>
                common[i].fam = common[i].match_fam

\* A is n generations above p along some chain (p is an individual)
Above(p, A, n) == p # NoIndi /\ A \in GenerationUp(p, n)

\* Of the upward chains of exactly n families from X to A, the path of the
\* one that a walk taking the wife's side before the husband's side meets
\* first, and the path of the one it meets last.
RECURSIVE FirstChain(_, _, _)
FirstChain(X, A, n) ==
    LET f == data.indi[X].famc
    IN  IF n <= 1 THEN <<f>>
        ELSE IF Above(data.fam[f].wife, A, n - 1)
        THEN <<f>> \o FirstChain(data.fam[f].wife, A, n - 1)
        ELSE <<f>> \o FirstChain(data.fam[f].husb, A, n - 1)

RECURSIVE LastChain(_, _, _)
LastChain(X, A, n) ==
    LET f == data.indi[X].famc
    IN  IF n <= 1 THEN <<f>>
        ELSE IF Above(data.fam[f].husb, A, n - 1)
        THEN <<f>> \o LastChain(data.fam[f].husb, A, n - 1)
        ELSE <<f>> \o LastChain(data.fam[f].wife, A, n - 1)

\* C19 (as amended): when an ancestor is reachable by several chains of
\* the same minimal length, find_ancestors keeps the entry (fam and path)
\* of the chain of that length that it visits last: a chain of equal
\* length visited later replaces the entry.
C19_LastChainKept ==
    pc = "find_common" =>
        \A X \in Indi :
            \A A \in ReachableUp(X) :
                LET entry == Item(AncestorsOf(X), A)
                IN  /\ entry.path = LastChain(X, A, MinGenerations(X, A))
                    /\ entry.fam = entry.path[Len(entry.path)]

\* the base person reaches an ancestor by two chains of the same minimal
\* length through different families, and the entry is that of the second
C19_Witness ==
    /\ pc = "find_common"
    /\ \E A \in ReachableUp(me) :
           LET n == MinGenerations(me, A)
           IN  /\ FirstChain(me, A, n) # LastChain(me, A, n)
               /\ Item(my_ancestors, A).path = LastChain(me, A, n)
               /\ Item(my_ancestors, A).fam # FirstChain(me, A, n)[n]

\* C19 (as claimed): when an ancestor is reachable by several chains of
\* the same minimal length, find_ancestors keeps the entry of the chain it
\* visited first.
C19_FirstChainKept ==
    pc = "find_common" =>
        \A X \in Indi :
            \A A \in ReachableUp(X) :
                Item(AncestorsOf(X), A).path
                    = FirstChain(X, A, MinGenerations(X, A))

\* C20: the order of partner_types is not semantic: the run with the two
\* names swapped gives every match the same relation and displays the
\* same families and the same people as the run in the source's order.
C20_OrderNotSemantic ==
    (pc = "done" /\ first_run.done) =>
        /\ relation = first_run.relation
        /\ DOMAIN families_to_display = first_run.families
        /\ people_to_display = first_run.people

\* the port of the slot of family f that holds individual p
SlotPort(f, p) == IF data.fam[f].wife = p THEN "w" ELSE "h"

\* the occurrences of individual p in the graph: the slot of p in each
\* displayed family in which p is a parent, or else the node of p
OccurrencesOf(p) ==
    IF DisplayedUnions(p) # {}
    THEN { [node |-> "f", id |-> f, port |-> SlotPort(f, p)] :
               f \in DisplayedUnions(p) }
    ELSE { [node |-> "i", id |-> p, port |-> "i"] }

\* the displayed individuals whose family-as-child (the first famc) is
\* displayed
WithDisplayedParents ==
    { p \in people_to_display :
          data.indi[p].famc \in DOMAIN families_to_display }

\* the place named by an end of a route is in a label written by dot_labels:
\* port "u" of a family node, port "w" or "h" of a family node whose slot
\* is filled, or port "i" of an individual node
IsLabelled(place) ==
    IF place.node = "f"
    THEN /\ place.id \in dot.fam
         /\ \/ place.port = "u"
            \/ place.port = "w" /\ data.fam[place.id].wife # NoIndi
            \/ place.port = "h" /\ data.fam[place.id].husb # NoIndi
    ELSE /\ place.id \in dot.indi
         /\ place.port = "i"

\* C21: the routes written by dot_connect are exactly one route for each
\* occurrence of a displayed individual whose family-as-child is displayed,
\* from that occurrence (the parent slot of each displayed family in which
\* the individual is a parent, or the individual's own node only when there
\* is no such family) to port "u" of that family; no occurrence has two
\* routes and both ends of every route are places that have a label.
C21_EdgeSet ==
    OutputDone =>
        /\ dot.routes =
               UNION { { <<o, [node |-> "f", id |-> data.indi[p].famc,
                               port |-> "u"]>> : o \in OccurrencesOf(p) } :
                       p \in WithDisplayedParents }
        /\ \A r \in dot.routes : IsLabelled(r[1]) /\ IsLabelled(r[2])
        /\ \A r1 \in dot.routes : \A r2 \in dot.routes :
               r1[1] = r2[1] => r1 = r2

\* the graph is written with an individual that is a parent in two displayed
\* families and has one route from each of the two slots to the family of
\* its parents, a route from an individual's own node, and a displayed
\* individual that has parents in the store but no route
C21_Witness ==
    /\ pc = "not_displayed"
    /\ \E p \in people_to_display :
           /\ Cardinality(DisplayedUnions(p)) = 2
           /\ Cardinality({ r \in dot.routes :
                  /\ r[1].node = "f"
                  /\ r[1].id \in DisplayedUnions(p)
                  /\ r[1].port = SlotPort(r[1].id, p)
                  /\ r[2].id = data.indi[p].famc }) = 2
    /\ \E r \in dot.routes : r[1].node = "i"
    /\ \E p \in people_to_display :
           /\ data.indi[p].famc # NoFam
           /\ \A r \in dot.routes :
                  r[1] \notin OccurrencesOf(p)

\* path is an upward chain of families from individual p to individual A:
\* its first family is the family-as-child (the first famc) of p, A is in a
\* partner slot of its last family, and each family after the first is the
\* family-as-child of a partner of the family before it
RECURSIVE IsChain(_, _, _)
IsChain(p, A, path) ==
    /\ path # << >>
    /\ data.indi[p].famc # NoFam
    /\ path[1] = data.indi[p].famc
    /\ IF Len(path) = 1
       THEN A \in PartnersOf(path[1])
       ELSE \E q \in PartnersOf(path[1]) : IsChain(q, A, Tail(path))

\* C22: every entry that find_ancestors records for an ancestor A of a
\* subject X is a valid upward chain: the path is not empty, its first
\* family is the family-as-child of X, each following family is the
\* family-as-child of a partner of the family before it, A is in a partner
\* slot of the last family, the recorded fam is that last family, and A is
\* as many generations above X as the path is long.
C22_ValidChains ==
    pc = "find_common" =>
        \A X \in Indi :
            LET items == find_ancestors(X, << >>, EmptyDict).items
            IN  \A k \in 1..Len(items) :
                    LET entry == items[k]
                        n == Len(entry.path)
                    IN  /\ n >= 1
                        /\ entry.path[1] = data.indi[X].famc
                        /\ \A j \in 2..n :
                               \E q \in PartnersOf(entry.path[j - 1]) :
                                   data.indi[q].famc = entry.path[j]
                        /\ entry.indi \in PartnersOf(entry.path[n])
                        /\ entry.fam = entry.path[n]
                        /\ IsChain(X, entry.indi, entry.path)
                        /\ entry.indi \in GenerationUp(X, n)

\* the dict of the base person has an entry three generations up, and an
\* entry for an ancestor reached by chains through two different families,
\* whose recorded fam is the last family of its path
C22_Witness ==
    /\ pc = "find_common"
    /\ \E k \in 1..Len(my_ancestors) :
           /\ Len(my_ancestors[k].path) = 3
           /\ IsChain(me, my_ancestors[k].indi, my_ancestors[k].path)
    /\ \E k \in 1..Len(my_ancestors) :
           /\ Cardinality({ f \in DOMAIN data.fam :
                  /\ my_ancestors[k].indi \in PartnersOf(f)
                  /\ \E c \in ReachableUp(me) \cup {me} :
                         data.indi[c].famc = f }) = 2
           /\ my_ancestors[k].fam
                  = my_ancestors[k].path[Len(my_ancestors[k].path)]

====
